---- MODULE Spec2Model ----
(***************************************************************************)
(* Model of the IMEDCalc dosage calculators (class CalculatorManager of    *)
(* public/js/script.js): the five calculators, the result elements they    *)
(* write to, the notifications attached to those elements, the antibiotic  *)
(* recommendation panel, card reset, card selection and the timers that    *)
(* run autoCalculate.                                                      *)
(*                                                                         *)
(* Numbers.  A JavaScript number is modelled as NaN, +Infinity, -Infinity  *)
(* or an exact rational n/d (d > 0, lowest terms).  The input texts of the *)
(* model are finite decimals with at most three fraction digits, and the   *)
(* arithmetic of the calculators is carried out exactly on them.           *)
(*                                                                         *)
(* Strings.  A formatted number is identified with the number it shows,    *)
(* in hundredths (formatNumber never shows more than two fraction digits). *)
(* The Georgian texts of the page are written as short ASCII tags.         *)
(***************************************************************************)
EXTENDS Integers, Sequences, FiniteSets, TLC

VARIABLES
    inputs,     \* numeric input elements: id -> the text typed into it
    selects,    \* select elements: id -> the selected option's value
    dom,        \* result elements: id -> text, category line, notification
    recHidden,  \* #crcl-recommendations carries the class 'hidden'
    recRows,    \* rows of #crcl-rec-table-body
    shown,      \* the card whose style.display is 'block'
    pending,    \* card -> number of autoCalculate timers not yet fired
    lastOp,     \* the handler that ran last, with the element it acted on
    users,      \* server: rows of table users, in order of id
    reset_tokens, \* server: rows of table reset_tokens, in order of id
    now,        \* server: the clock, in hours
    reqs,       \* server: the requests being handled, by slot
    issued,     \* server: the JSON web tokens sent in responses so far
    sent,       \* server: the response sent last
    successes,  \* server: reset token -> number of success responses
    localStorage,   \* client: the token under 'imedcalc_jwt' (0: none)
    calls,          \* client: the apiCalls awaiting their response, by slot
    refreshTimeout, \* client: the timer of scheduleTokenRefresh
    loggedIn,       \* client: what updateUI displayed last
    minted,         \* client: number of tokens received from the server
    authLast,       \* client: the AuthManager step that ran last
    cache,          \* service worker: the entries of cache 'imedcalc-v2.0.0'
    fetches,        \* service worker: the fetch events being answered, by slot
    swLast          \* service worker: the answer given last

pageVars == <<inputs, selects, dom, recHidden, recRows, shown, pending, lastOp>>
serverVars == <<users, reset_tokens, now, reqs, issued, sent, successes>>
authVars == <<localStorage, calls, refreshTimeout, loggedIn, minted, authLast>>
swVars == <<cache, fetches, swLast>>
vars == <<pageVars, serverVars, authVars, swVars>>

-----------------------------------------------------------------------------
(* Bounds of the model *)

\* autoCalculate timers that may be outstanding for one card at a time
MaxPending == 2

-----------------------------------------------------------------------------
(* JavaScript numbers *)

Abs(x) == IF x < 0 THEN -x ELSE x

RECURSIVE GCD(_, _)
GCD(a, b) == IF b = 0 THEN a ELSE GCD(b, a % b)

NaN == [k |-> "nan", n |-> 0, d |-> 1]
Infinity == [k |-> "inf", n |-> 0, d |-> 1]
NegInfinity == [k |-> "ninf", n |-> 0, d |-> 1]

\* the rational n/d, d # 0, in lowest terms with a positive denominator
Fin(n, d) ==
    LET g == GCD(Abs(n), Abs(d))
        s == IF d < 0 THEN -1 ELSE 1
    IN  [k |-> "fin", n |-> s * (n \div g), d |-> s * (d \div g)]

Int2Num(i) == [k |-> "fin", n |-> i, d |-> 1]

\* a * b on finite numbers (cross-cancelled before multiplying)
Mul(a, b) ==
    LET g1 == GCD(Abs(a.n), b.d)
        g2 == GCD(Abs(b.n), a.d)
    IN  Fin((a.n \div g1) * (b.n \div g2), (a.d \div g2) * (b.d \div g1))

\* a / b on finite numbers, b # 0
Div(a, b) == Mul(a, Fin(b.d, b.n))

\* a - b on finite numbers
Sub(a, b) == Fin(a.n * b.d - b.n * a.d, a.d * b.d)

\* a < b, a <= b, a > b, a >= b on finite numbers
Lt(a, b) == a.n * b.d < b.n * a.d
Le(a, b) == a.n * b.d <= b.n * a.d
Gt(a, b) == Lt(b, a)
Ge(a, b) == Le(b, a)

\* a variant of MathMax0 that does not clamp
MathMax0Unclamped(x) == x

\* Math.max(0, x) for a finite or infinite x
MathMax0(x) ==
    CASE x.k = "nan" -> NaN
      [] x.k = "inf" -> Infinity
      [] x.k = "ninf" -> Int2Num(0)
      [] OTHER -> IF x.n < 0 THEN Int2Num(0) ELSE x

-----------------------------------------------------------------------------
(* Input texts and parseFloat *)

\* the text of a numeric input element: empty, not a number ("abc"), the
\* word Infinity with or without a minus sign, or a decimal of m thousandths
EmptyText == [k |-> "empty", m |-> 0]
JunkText == [k |-> "junk", m |-> 0]
InfText == [k |-> "inf", m |-> 0]
NegInfText == [k |-> "ninf", m |-> 0]
Dec(m) == [k |-> "dec", m |-> m]

parseFloat(t) ==
    CASE t.k = "dec" -> Fin(t.m, 1000)
      [] t.k = "inf" -> Infinity
      [] t.k = "ninf" -> NegInfinity
      [] OTHER -> NaN

-----------------------------------------------------------------------------
(* The page: cards, input elements, result elements *)

Cards == {"bicarb-card", "potassium-card", "kcoef-card", "solu-card", "crcl-card"}

\* the numeric input elements of a card
CardInputs(card) ==
    CASE card = "bicarb-card" -> {"bicarb-weight", "bicarb-be"}
      [] card = "potassium-card" -> {"k-weight", "k-level"}
      [] card = "kcoef-card" -> {"kcoef-mg", "kcoef-vol"}
      [] card = "solu-card" -> {"solu-weight"}
      [] card = "crcl-card" -> {"crcl-age", "crcl-weight", "crcl-creatinine"}

\* the select elements of a card
CardSelects(card) ==
    IF card = "crcl-card" THEN {"crcl-gender", "crcl-unit"} ELSE {}

\* the element of class 'result' of a card
CardResult(card) ==
    CASE card = "bicarb-card" -> "bicarb-result"
      [] card = "potassium-card" -> "potassium-result"
      [] card = "kcoef-card" -> "kcoef-result"
      [] card = "solu-card" -> "solu-result"
      [] card = "crcl-card" -> "crcl-result"

InputIds == UNION {CardInputs(c) : c \in Cards}
SelectIds == UNION {CardSelects(c) : c \in Cards}
ResultIds == {CardResult(c) : c \in Cards}

\* the options of a select element, the first one first; calcCrCl tests
\* for 'female' and for the micromol/L unit, every other value falls in
\* its else branches
Options(id) ==
    IF id = "crcl-gender" THEN <<"male", "female">> ELSE <<"mg/dL", "umol/L">>

\* a notification: its type, its message and the number the message quotes
\* (in tenths, as toFixed(1) prints it; 0 when it quotes none)
NoNotification == [type |-> "none", msg |-> "", arg |-> 0]

\* a result element showing 'result: --' and nothing else
BlankResult ==
    [dash |-> TRUE, h |-> 0, unit |-> "", cat |-> "", notif |-> NoNotification]

-----------------------------------------------------------------------------
(* Utility methods *)

\* n/d (n >= 0, d > 0) rounded to the nearest integer, a half rounding up
RoundHalfUp(n, d) ==
    LET q == n \div d
        r == n % d
    IN  IF 2 * r >= d THEN q + 1 ELSE q

\* |x| * 10^digits rounded to an integer, as toLocaleString rounds it
ScaledRound(x, digits) ==
    LET a == Abs(x.n)
        p == CASE digits = 0 -> 1 [] digits = 1 -> 10 [] OTHER -> 100
    IN  (a \div x.d) * p + RoundHalfUp((a % x.d) * p, x.d)

\* a variant of formatNumber that keeps two fraction digits for every size
formatNumberTwoDigits(x) ==
    IF x.k # "fin" THEN [dash |-> TRUE, h |-> 0]
    ELSE LET sgn == IF x.n < 0 THEN -1 ELSE 1
         IN  [dash |-> FALSE, h |-> sgn * ScaledRound(x, 2)]

\* formatNumber(n): the dash for NaN and the infinities, otherwise n with at
\* most 0, 1 or 2 fraction digits; the number shown is given in hundredths
formatNumber(x) ==
    IF x.k # "fin" THEN [dash |-> TRUE, h |-> 0]
    ELSE LET sgn == IF x.n < 0 THEN -1 ELSE 1
             abs == Fin(Abs(x.n), x.d)
         IN  IF Ge(abs, Int2Num(1000))
                 THEN [dash |-> FALSE, h |-> sgn * ScaledRound(x, 0) * 100]
             ELSE IF Ge(abs, Int2Num(100))
                 THEN [dash |-> FALSE, h |-> sgn * ScaledRound(x, 1) * 10]
             ELSE [dash |-> FALSE, h |-> sgn * ScaledRound(x, 2)]

\* a variant of setResult that rewrites the text and keeps a notification
setResultKeepingNotification(d, elementId, value, unit) ==
    LET f == formatNumber(value)
    IN  [d EXCEPT ![elementId] =
            [dash |-> f.dash, h |-> f.h, unit |-> unit, cat |-> "",
             notif |-> d[elementId].notif]]

\* setResult(elementId, value, unit): textContent is replaced (every child
\* of the element, a notification included, goes with the old text)
setResult(d, elementId, value, unit) ==
    LET f == formatNumber(value)
    IN  [d EXCEPT ![elementId] =
            [dash |-> f.dash, h |-> f.h, unit |-> unit, cat |-> "",
             notif |-> NoNotification]]

\* a variant of validNumber without the isFinite test
validNumberNotNaN(v) == v.k # "nan"

\* requireValidNumber(...values) for one value
validNumber(v) == v.k = "fin"

\* requireValidNumber(...values)
requireValidNumber(values) == \A i \in 1..Len(values) : validNumber(values[i])

-----------------------------------------------------------------------------
(* UI helpers *)

\* showNotification(elementId, message, type): the element's notification,
\* if it has one, is removed and the new one appended; the text stays
showNotification(d, elementId, message, type) ==
    [d EXCEPT ![elementId].notif =
        [type |-> type, msg |-> message.msg, arg |-> message.arg]]

showWarning(d, elementId, message) == showNotification(d, elementId, message, "warning")
showError(d, elementId, message) == showNotification(d, elementId, message, "error")
showInfo(d, elementId, message) == showNotification(d, elementId, message, "info")

\* a message without a number in it, and one quoting x.toFixed(1)
Message(tag) == [msg |-> tag, arg |-> 0]
MessageFixed1(tag, x) ==
    [msg |-> tag, arg |-> (IF x.n < 0 THEN -1 ELSE 1) * ScaledRound(x, 1)]

-----------------------------------------------------------------------------
(* Calculator functions: each maps the input elements and the result       *)
(* elements before the call to the result elements after it                *)

\* a variant of bicarbDose that divides by the base excess
bicarbDoseDivided(weight, be) == Mul(Mul(Div(weight, be), Int2Num(2)), Fin(3, 10))

\* weight * be * 2 * 0.3, evaluated left to right
bicarbDose(weight, be) == Mul(Mul(Mul(weight, be), Int2Num(2)), Fin(3, 10))

\* a variant of bicarbInvalid that lets a base excess of 0 through
bicarbInvalidStrict(weight, be) ==
    ~requireValidNumber(<<weight, be>>) \/ Lt(be, Int2Num(0))

\* the guard of calcBicarb's early return
bicarbInvalid(weight, be) ==
    ~requireValidNumber(<<weight, be>>) \/ Le(be, Int2Num(0))

\* dose > 100
bicarbHighDose(dose) == Gt(dose, Int2Num(100))

calcBicarb(i, d) ==
    LET weight == parseFloat(i["bicarb-weight"])
        be == parseFloat(i["bicarb-be"])
    IN  IF bicarbInvalid(weight, be)
            THEN setResult(d, "bicarb-result", NaN, "")
        ELSE LET dose == bicarbDose(weight, be)
                 d1 == setResult(d, "bicarb-result", dose, "ml 8.4% NaHCO3")
             IN  IF bicarbHighDose(dose)
                     THEN showWarning(d1, "bicarb-result", Message("highDose"))
                 ELSE d1

\* the guard of calcPotassium's early return
potassiumInvalid(weight, level) ==
    ~requireValidNumber(<<weight, level>>) \/ Le(level, Int2Num(0))

\* a variant of criticallyLow with the threshold at 2
criticallyLowBelow2(level) == Lt(level, Int2Num(2))

\* the safety check: level < 2.5
criticallyLow(level) == Lt(level, Fin(25, 10))

\* a variant of potassiumAmount with the factor's digits transposed
potassiumAmount147(weight, level) == Div(Mul(weight, Fin(147, 100)), level)

\* (weight * 1.74) / level
potassiumAmount(weight, level) == Div(Mul(weight, Fin(174, 100)), level)

calcPotassium(i, d) ==
    LET weight == parseFloat(i["k-weight"])
        level == parseFloat(i["k-level"])
    IN  IF potassiumInvalid(weight, level)
            THEN setResult(d, "potassium-result", NaN, "")
        ELSE IF criticallyLow(level)
            THEN showError(d, "potassium-result", Message("criticalLowK"))
        ELSE LET amount == potassiumAmount(weight, level)
                 d1 == setResult(d, "potassium-result", amount, "ml 15% KCl")
             IN  IF Gt(amount, Int2Num(40))
                     THEN showWarning(d1, "potassium-result",
                                      MessageFixed1("highDoseRate", amount))
                 ELSE d1

\* a variant of kcoefGuidance whose first test is not strict
kcoefGuidanceFrom1000(concentration) ==
    IF Ge(concentration, Int2Num(1000)) THEN "highConcentration"
    ELSE IF Lt(concentration, Int2Num(100)) THEN "lowConcentration"
    ELSE ""

\* the guidance text chosen by calcKcoef, '' for none
kcoefGuidance(concentration) ==
    IF Gt(concentration, Int2Num(1000)) THEN "highConcentration"
    ELSE IF Lt(concentration, Int2Num(100)) THEN "lowConcentration"
    ELSE ""

calcKcoef(i, d) ==
    LET mg == parseFloat(i["kcoef-mg"])
        volume == parseFloat(i["kcoef-vol"])
    IN  IF ~requireValidNumber(<<mg, volume>>) \/ Le(volume, Int2Num(0))
            THEN setResult(d, "kcoef-result", NaN, "")
        ELSE LET concentration == Div(Mul(mg, Int2Num(1000)), volume)
                 d1 == setResult(d, "kcoef-result", concentration, "mcg/ml")
                 guidance == kcoefGuidance(concentration)
             IN  IF guidance # "" THEN showInfo(d1, "kcoef-result", Message(guidance))
                 ELSE d1

\* a variant of soluVolume for a 250 mg/ml concentration
soluVolume250(dose) == Div(dose, Int2Num(250))

\* dose / 125
soluVolume(dose) == Div(dose, Int2Num(125))

\* a variant of calcSolu that passes the unit with the invalid value
calcSoluUnitOnInvalid(i, d) ==
    LET weight == parseFloat(i["solu-weight"])
    IN  IF ~requireValidNumber(<<weight>>)
            THEN setResult(d, "solu-result", NaN, "mg IV")
        ELSE LET dose == Mul(Int2Num(30), weight)
                 d1 == setResult(d, "solu-result", dose, "mg IV")
                 volume == soluVolume(dose)
             IN  showInfo(d1, "solu-result", MessageFixed1("volume", volume))

calcSolu(i, d) ==
    LET weight == parseFloat(i["solu-weight"])
    IN  IF ~requireValidNumber(<<weight>>)
            THEN setResult(d, "solu-result", NaN, "")
        ELSE LET dose == Mul(Int2Num(30), weight)
                 d1 == setResult(d, "solu-result", dose, "mg IV")
                 volume == soluVolume(dose)
             IN  showInfo(d1, "solu-result", MessageFixed1("volume", volume))

-----------------------------------------------------------------------------
(* Antibiotic recommendations *)

Row(name, crcl, dose, frequency) ==
    [name |-> name, crcl |-> crcl, dose |-> dose, frequency |-> frequency]

\* the reference table, its keys in the order the object literal lists them
DrugOrder == <<"amoxicillin", "ciprofloxacin", "gentamicin", "meropenem", "vancomycin">>

recs ==
    [amoxicillin |->
        [normal |-> Row("amoxicillin", ">50", "500-875 mg", "q8-12h"),
         mild |-> Row("amoxicillin", "30-50", "500 mg", "q12h"),
         moderate |-> Row("amoxicillin", "10-30", "500 mg", "q12-24h"),
         severe |-> Row("amoxicillin", "<10", "500 mg", "q24h")],
     ciprofloxacin |->
        [normal |-> Row("ciprofloxacin", ">50", "250-750 mg", "q12h"),
         mild |-> Row("ciprofloxacin", "30-50", "250-500 mg", "q12h"),
         moderate |-> Row("ciprofloxacin", "10-30", "250-500 mg", "q24h"),
         severe |-> Row("ciprofloxacin", "<10", "250 mg", "q48h")],
     gentamicin |->
        [normal |-> Row("gentamicin", ">50", "5-7 mg/kg", "q24h"),
         mild |-> Row("gentamicin", "30-50", "3-5 mg/kg", "q24h"),
         moderate |-> Row("gentamicin", "10-30", "2-3 mg/kg", "q48h"),
         severe |-> Row("gentamicin", "<10", "1-2 mg/kg", "q72h")],
     meropenem |->
        [normal |-> Row("meropenem", ">50", "1-2 g", "q8h"),
         mild |-> Row("meropenem", "30-50", "1-2 g", "q12h"),
         moderate |-> Row("meropenem", "10-30", "500 mg-1 g", "q12h"),
         severe |-> Row("meropenem", "<10", "500 mg", "q24h")],
     vancomycin |->
        [normal |-> Row("vancomycin", ">50", "15-20 mg/kg", "q8-12h"),
         mild |-> Row("vancomycin", "30-50", "15 mg/kg", "q24h"),
         moderate |-> Row("vancomycin", "10-30", "15 mg/kg", "q48h"),
         severe |-> Row("vancomycin", "<10", "monitoring", "individual")]]

\* a variant of getAntibioticRecommendations that reads every drug's row
\* for normal renal function
getAntibioticRecommendationsNormal(category) ==
    [k \in 1..Len(DrugOrder) |-> recs[DrugOrder[k]]["normal"]]

getAntibioticRecommendations(category) ==
    [k \in 1..Len(DrugOrder) |-> recs[DrugOrder[k]][category]]

\* a variant of categoryOf whose first test is strict
categoryOfStrict(crcl) ==
    IF crcl.k = "inf" \/ (crcl.k = "fin" /\ Gt(crcl, Int2Num(50))) THEN "normal"
    ELSE IF crcl.k = "fin" /\ Ge(crcl, Int2Num(30)) THEN "mild"
    ELSE IF crcl.k = "fin" /\ Ge(crcl, Int2Num(10)) THEN "moderate"
    ELSE "severe"

\* the category chosen at the head of showRecommendations
categoryOf(crcl) ==
    IF crcl.k = "inf" \/ (crcl.k = "fin" /\ Ge(crcl, Int2Num(50))) THEN "normal"
    ELSE IF crcl.k = "fin" /\ Ge(crcl, Int2Num(30)) THEN "mild"
    ELSE IF crcl.k = "fin" /\ Ge(crcl, Int2Num(10)) THEN "moderate"
    ELSE "severe"

\* the page state the CrCl card writes: result elements and the panel
Page(d, hidden, rows) == [dom |-> d, hidden |-> hidden, rows |-> rows]

\* a variant of showRecommendations that categorises the number it displays
showRecommendationsRounded(pg, crcl) ==
    LET f == formatNumber(crcl)
        category == categoryOf(IF f.dash THEN crcl ELSE Fin(f.h, 100))
    IN  Page([pg.dom EXCEPT !["crcl-result"] =
                 [dash |-> f.dash, h |-> f.h, unit |-> "ml/min",
                  cat |-> category, notif |-> NoNotification]],
             FALSE,
             getAntibioticRecommendations(category))

\* showRecommendations(crcl): the table body is refilled, the panel shown,
\* and the result element's content replaced by the value and the
\* category's line
showRecommendations(pg, crcl) ==
    LET category == categoryOf(crcl)
        f == formatNumber(crcl)
    IN  Page([pg.dom EXCEPT !["crcl-result"] =
                 [dash |-> f.dash, h |-> f.h, unit |-> "ml/min",
                  cat |-> category, notif |-> NoNotification]],
             FALSE,
             getAntibioticRecommendations(category))

\* a variant of hideRecommendations that leaves the panel as it is
hideRecommendationsKeeping(pg) == Page(pg.dom, pg.hidden, pg.rows)

hideRecommendations(pg) == Page(pg.dom, TRUE, pg.rows)

\* a variant of crclInvalid that rejects age 0
crclInvalidAgeZero(age, weight, creatinine) ==
    \/ ~requireValidNumber(<<age, weight, creatinine>>)
    \/ Le(age, Int2Num(0))
    \/ Le(weight, Int2Num(0))
    \/ Le(creatinine, Int2Num(0))

\* the guard of calcCrCl's early return
crclInvalid(age, weight, creatinine) ==
    \/ ~requireValidNumber(<<age, weight, creatinine>>)
    \/ Lt(age, Int2Num(0))
    \/ Le(weight, Int2Num(0))
    \/ Le(creatinine, Int2Num(0))

\* a variant of crValueOf that converts with 88 in place of 88.4
crValueOf88(unit, creatinine) ==
    IF unit = "umol/L" THEN Div(creatinine, Int2Num(88)) ELSE creatinine

\* creatinine in mg/dL (1 mg/dL = 88.4 umol/L)
crValueOf(unit, creatinine) ==
    IF unit = "umol/L" THEN Div(creatinine, Fin(884, 10)) ELSE creatinine

\* a variant of genderFactorOf that gives 0.85 to the other gender
genderFactorOfSwapped(gender) == IF gender = "male" THEN Fin(85, 100) ELSE Int2Num(1)

genderFactorOf(gender) == IF gender = "female" THEN Fin(85, 100) ELSE Int2Num(1)

\* ((140 - age) * weight * genderFactor) / (72 * crValue)
cockcroftGault(age, weight, genderFactor, crValue) ==
    Div(Mul(Mul(Sub(Int2Num(140), age), weight), genderFactor),
        Mul(Int2Num(72), crValue))

calcCrCl(i, s, pg) ==
    LET age == parseFloat(i["crcl-age"])
        weight == parseFloat(i["crcl-weight"])
        gender == s["crcl-gender"]
        creatinine == parseFloat(i["crcl-creatinine"])
        unit == s["crcl-unit"]
    IN  IF crclInvalid(age, weight, creatinine)
            THEN hideRecommendations(
                     Page(setResult(pg.dom, "crcl-result", NaN, ""), pg.hidden, pg.rows))
        ELSE LET crValue == crValueOf(unit, creatinine)
                 genderFactor == genderFactorOf(gender)
                 crcl == cockcroftGault(age, weight, genderFactor, crValue)
                 d1 == setResult(pg.dom, "crcl-result", MathMax0(crcl), "ml/min")
             IN  showRecommendations(Page(d1, pg.hidden, pg.rows), MathMax0(crcl))

\* autoCalculate(cardId): the card's calculator
autoCalculate(cardId, i, s, pg) ==
    CASE cardId = "bicarb-card" -> Page(calcBicarb(i, pg.dom), pg.hidden, pg.rows)
      [] cardId = "potassium-card" -> Page(calcPotassium(i, pg.dom), pg.hidden, pg.rows)
      [] cardId = "kcoef-card" -> Page(calcKcoef(i, pg.dom), pg.hidden, pg.rows)
      [] cardId = "solu-card" -> Page(calcSolu(i, pg.dom), pg.hidden, pg.rows)
      [] cardId = "crcl-card" -> calcCrCl(i, s, pg)

\* resetCard(cardId): inputs cleared, selects back to their first option,
\* the result text back to the dash, the panel hidden for the CrCl card
resetCardInputs(cardId, i) ==
    [id \in InputIds |-> IF id \in CardInputs(cardId) THEN EmptyText ELSE i[id]]

resetCardSelects(cardId, s) ==
    [id \in SelectIds |-> IF id \in CardSelects(cardId) THEN Options(id)[1] ELSE s[id]]

\* a variant of resetCard that hides the recommendations for every card
resetCardPageHidingAlways(cardId, pg) ==
    LET d1 == [pg.dom EXCEPT ![CardResult(cardId)] = BlankResult]
    IN  hideRecommendations(Page(d1, pg.hidden, pg.rows))

resetCardPage(cardId, pg) ==
    LET d1 == [pg.dom EXCEPT ![CardResult(cardId)] = BlankResult]
    IN  IF cardId = "crcl-card" THEN hideRecommendations(Page(d1, pg.hidden, pg.rows))
        ELSE Page(d1, pg.hidden, pg.rows)

-----------------------------------------------------------------------------
(* The texts a user types, per input element *)

Texts(id) ==
    CASE id = "bicarb-weight" ->
            {EmptyText, JunkText, InfText, Dec(70000), Dec(20000), Dec(-70000)}
      [] id = "bicarb-be" ->
            {EmptyText, NegInfText, Dec(-8000), Dec(0), Dec(8000), Dec(2381), Dec(2380)}
      [] id = "k-weight" ->
            {EmptyText, InfText, Dec(70000), Dec(60000), Dec(-10000)}
      [] id = "k-level" ->
            {EmptyText, JunkText, NegInfText, Dec(-1000), Dec(0), Dec(1),
             Dec(2499), Dec(2500), Dec(3045), Dec(4000)}
      [] id = "kcoef-mg" ->
            {EmptyText, InfText, Dec(0), Dec(4000), Dec(25000), Dec(50000),
             Dec(200000)}
      [] id = "kcoef-vol" ->
            {EmptyText, JunkText, Dec(-50000), Dec(0), Dec(50000), Dec(250000)}
      [] id = "solu-weight" ->
            {EmptyText, JunkText, InfText, Dec(-10000), Dec(0), Dec(1000),
             Dec(12500), Dec(70000)}
      [] id = "crcl-age" ->
            {EmptyText, Dec(-1000), Dec(0), Dec(60000), Dec(68000), Dec(150000)}
      [] id = "crcl-weight" ->
            {EmptyText, Dec(0), Dec(70000), Dec(50000), Dec(49999), Dec(49996),
             Dec(30000), Dec(29999), Dec(29996), Dec(10000), Dec(9999), Dec(9996)}
      [] id = "crcl-creatinine" ->
            {EmptyText, InfText, Dec(-1000), Dec(0), Dec(1000), Dec(1200), Dec(88400)}

-----------------------------------------------------------------------------
(* The server: users, password reset tokens, JSON web tokens *)

\* bounds of the server model
MaxRequests == 2
MaxTokens == 1
MaxHours == 2
MaxDays == 1

\* the hour of the day at which the server is started
StartHour == 21
HoursPerDay == 24

JWT_SECRET == "imedcalc-secret-2025"

\* expiresIn: '24h'
JwtLifetime == 24

\* 60 * 60 * 1000 ms
ResetLifetime == 1

ReqIds == 1..MaxRequests

\* texts a client sends as email, name and password
EmailTexts == {"", "junk", "a@x.ge", "A@x.ge", "b@x.ge"}
NameTexts == {" Ana "}
PasswordTexts == {"pw", "password1"}
NewPasswordTexts == {"", "pw", "password2"}

\* /^[^\s@]+@[^\s@]+\.[^\s@]+$/.test(e)
emailValid(e) == e \in {"a@x.ge", "A@x.ge", "b@x.ge"}

toLowerCase(e) == IF e = "A@x.ge" THEN "a@x.ge" ELSE e

trim(t) == IF t = " Ana " THEN "Ana" ELSE t

length(p) ==
    CASE p = "" -> 0 [] p = "pw" -> 2 [] OTHER -> 9

\* bcrypt.hashSync(password, 12), compared by bcrypt.compareSync
hashSync(password) == [bcrypt |-> password]

\* validateInput for /api/register: every field a non-blank string, the
\* password of 8 characters or more, the email matching the pattern
registerValid(name, email, password) ==
    /\ name # "" /\ trim(name) # ""
    /\ email # "" /\ password # ""
    /\ length(password) >= 8
    /\ emailValid(email)

\* JSON web tokens: jwt.sign({id, email}, secret, {expiresIn: '24h'})
NoJwt == [id |-> 0, email |-> "", exp |-> 0, sig |-> "none"]

jwtSign(id, email, secret, t) ==
    [id |-> id, email |-> email, exp |-> t + JwtLifetime, sig |-> secret]

\* a variant of jwtVerify that does not look at the expiry
jwtVerifyIgnoringExpiry(token, secret, t) == token.sig = secret

\* jwt.verify(token, secret): the signature is the secret's and the token
\* has not expired
jwtVerify(token, secret, t) == token.sig = secret /\ t < token.exp

\* the Authorization header: absent, a scheme with no token after it, or
\* 'Bearer <token>'
NoHeader == [present |-> FALSE, token |-> NoJwt]
BareScheme == [present |-> TRUE, token |-> NoJwt]
Bearer(token) == [present |-> TRUE, token |-> token]

\* authHeader && authHeader.split(' ')[1]
tokenOfHeader(h) == IF h.present THEN h.token ELSE NoJwt

\* rows
NoUser == [id |-> 0, name |-> "", email |-> "", password_hash |-> hashSync("")]
NoRow == [user_id |-> 0, token |-> 0, expires |-> [date |-> 0, sep |-> " ", time |-> 0],
          used |-> 0]

\* SELECT ... FROM users WHERE email = ? / WHERE id = ?
userByEmail(us, email) ==
    IF \E k \in 1..Len(us) : us[k].email = email
        THEN us[CHOOSE k \in 1..Len(us) : us[k].email = email]
        ELSE NoUser

userById(us, id) == IF id \in 1..Len(us) THEN us[id] ELSE NoUser

\* date and time texts: new Date(ms).toISOString() is
\* 'YYYY-MM-DDTHH:MM:SS.sssZ', SQLite's DATETIME('now') is
\* 'YYYY-MM-DD HH:MM:SS'; t is in hours
toISOString(t) == [date |-> t \div HoursPerDay, sep |-> "T", time |-> t % HoursPerDay]
DATETIME(t) == [date |-> t \div HoursPerDay, sep |-> " ", time |-> t % HoursPerDay]

\* the character code of the separator after the date
charCode(c) == IF c = "T" THEN 84 ELSE 32

\* a > b as SQLite compares two texts: byte by byte from the left
textGreater(a, b) ==
    \/ a.date > b.date
    \/ a.date = b.date /\ charCode(a.sep) > charCode(b.sep)
    \/ a.date = b.date /\ a.sep = b.sep /\ a.time > b.time

\* SELECT user_id FROM reset_tokens WHERE token = ? AND
\* expires > DATETIME("now") AND used = 0
resetRow(rows, token, t) ==
    LET hit(k) == /\ rows[k].token = token
                  /\ textGreater(rows[k].expires, DATETIME(t))
                  /\ rows[k].used = 0
    IN  IF \E k \in 1..Len(rows) : hit(k)
            THEN rows[CHOOSE k \in 1..Len(rows) : hit(k)]
            ELSE NoRow

\* requests and responses
Idle == [kind |-> "idle", phase |-> "", name |-> "", email |-> "", password |-> "",
         header |-> NoHeader, token |-> 0, at |-> 0, user |-> NoUser, row |-> NoRow]

NoResponse == [kind |-> "none", status |-> 0, msg |-> "", user |-> NoUser, jwt |-> NoJwt,
               req |-> Idle, lookedUp |-> FALSE]

Response(req, status, msg) ==
    [kind |-> req.kind, status |-> status, msg |-> msg, user |-> NoUser, jwt |-> NoJwt,
     req |-> req, lookedUp |-> req.phase # "" ]

InitServer ==
    /\ users = << >>
    /\ reset_tokens = << >>
    /\ now = StartHour
    /\ reqs = [r \in ReqIds |-> Idle]
    /\ issued = {}
    /\ sent = NoResponse
    /\ successes = [t \in 1..MaxTokens |-> 0]

-----------------------------------------------------------------------------
(* The client's AuthManager *)

\* bounds of the client model
MaxCalls == 2
MaxMinted == 2

CallIds == 1..MaxCalls

\* the token left in storage by an earlier visit
StaleToken == 1

NoCall == [endpoint |-> "", origin |-> "", token |-> 0]

\* the outcomes of an apiCall: data returned; status 401 or an error text
\* that names the token (clearAuth, then throw); another error status (throw)
Outcomes(call) ==
    CASE call.endpoint = "/api/profile" -> {"ok", "rejected"}
      [] call.endpoint = "/api/login" -> {"ok", "rejected", "error"}
      [] OTHER -> {"ok", "error"}

InitAuth ==
    /\ localStorage = 0
    /\ calls = [c \in CallIds |-> NoCall]
    /\ refreshTimeout = "none"
    /\ loggedIn = FALSE
    /\ minted = StaleToken
    /\ authLast = [op |-> "unloaded", origin |-> "", token |-> 0]

-----------------------------------------------------------------------------
(* The service worker *)

\* bound of the service worker model
MaxFetches == 2

FetchIds == 1..MaxFetches

\* const urlsToCache
urlsToCache ==
    {"/", "/index.html", "/logo.svg", "/manifest.json", "/js/script.js",
     "/js/auth.js", "/css/styles.css"}

\* the requests pages make
Urls == {"/index.html", "/about", "/api/profile"}

Requests ==
    [url : Urls, method : {"GET", "POST"}, destination : {"document", ""}]

NoRequest == [url |-> "", method |-> "", destination |-> ""]

\* event.request.url.includes('/api/')
includesApi(url) == url = "/api/profile"

\* the guard of the fetch handler's first branch
bypasses(request) == includesApi(request.url) \/ request.method # "GET"

\* statuses of the responses the network gives
Statuses == {200, 404}

Entry(url, status) == [url |-> url, status |-> status]

\* caches.match(url): an entry stored for a GET of the url
cached(c, url) == \E e \in c : e.url = url

NoFetch == [request |-> NoRequest, phase |-> "", status |-> 0]

NoAnswer == [request |-> NoRequest, source |-> "", status |-> 0]

Answer(request, source, status) ==
    [request |-> request, source |-> source, status |-> status]

InitSW ==
    /\ cache = {}
    /\ fetches = [f \in FetchIds |-> NoFetch]
    /\ swLast = NoAnswer

-----------------------------------------------------------------------------
(* The page as a state machine *)

page == Page(dom, recHidden, recRows)

\* the state once the constructor has run: the bicarbonate card shown and
\* its first autoCalculate scheduled by showCalculator.  The page's markup
\* is not among the sources: the elements start as resetCard leaves them
\* (empty inputs, first options, 'result: --'), the panel hidden and empty
InitPage ==
    /\ inputs = [id \in InputIds |-> EmptyText]
    /\ selects = [id \in SelectIds |-> Options(id)[1]]
    /\ dom = [id \in ResultIds |-> BlankResult]
    /\ recHidden = TRUE
    /\ recRows = <<>>
    /\ shown = "bicarb-card"
    /\ pending = [c \in Cards |-> IF c = "bicarb-card" THEN 1 ELSE 0]
    /\ lastOp = [op |-> "init", card |-> "bicarb-card"]

Init == InitPage /\ InitServer /\ InitAuth /\ InitSW

SetPage(pg) ==
    /\ dom' = pg.dom
    /\ recHidden' = pg.hidden
    /\ recRows' = pg.rows

\* the user changes an input of the visible card; the 'input' listener
\* schedules autoCalculate for the card
InputEventFrom(card, texts) ==
    /\ shown = card
    /\ pending[card] < MaxPending
    /\ \E id \in CardInputs(card) : \E t \in texts[id] :
          /\ t # inputs[id]
          /\ inputs' = [inputs EXCEPT ![id] = t]
    /\ pending' = [pending EXCEPT ![card] = @ + 1]
    /\ lastOp' = [op |-> "input", card |-> card]
    /\ UNCHANGED <<selects, dom, recHidden, recRows, shown, serverVars, authVars, swVars>>

InputEvent(card) == InputEventFrom(card, [id \in InputIds |-> Texts(id)])

\* the user picks another option of a select of the visible card
SelectEvent(card) ==
    /\ shown = card
    /\ pending[card] < MaxPending
    /\ \E id \in CardSelects(card) : \E k \in 1..Len(Options(id)) :
          /\ Options(id)[k] # selects[id]
          /\ selects' = [selects EXCEPT ![id] = Options(id)[k]]
    /\ pending' = [pending EXCEPT ![card] = @ + 1]
    /\ lastOp' = [op |-> "input", card |-> card]
    /\ UNCHANGED <<inputs, dom, recHidden, recRows, shown, serverVars, authVars, swVars>>

\* a timer set by the 'input' listener or by showCalculator fires
AutoCalculateTimer(card) ==
    /\ pending[card] > 0
    /\ pending' = [pending EXCEPT ![card] = @ - 1]
    /\ SetPage(autoCalculate(card, inputs, selects, page))
    /\ lastOp' = [op |-> "calc", card |-> card]
    /\ UNCHANGED <<inputs, selects, shown, serverVars, authVars, swVars>>

\* window.calcBicarb(), ..., window.calcCrCl() called from the page
Calculate(card) ==
    /\ SetPage(autoCalculate(card, inputs, selects, page))
    /\ lastOp' = [op |-> "calc", card |-> card]
    /\ UNCHANGED <<inputs, selects, shown, pending, serverVars, authVars, swVars>>

ResetCard(card) ==
    /\ inputs' = resetCardInputs(card, inputs)
    /\ selects' = resetCardSelects(card, selects)
    /\ SetPage(resetCardPage(card, page))
    /\ lastOp' = [op |-> "reset", card |-> card]
    /\ UNCHANGED <<shown, pending, serverVars, authVars, swVars>>

ShowCalculator(card) ==
    /\ pending[card] < MaxPending
    /\ shown' = card
    /\ pending' = [pending EXCEPT ![card] = @ + 1]
    /\ lastOp' = [op |-> "show", card |-> card]
    /\ UNCHANGED <<inputs, selects, dom, recHidden, recRows, serverVars, authVars, swVars>>

\* six seconds after it was appended, a notification still attached to its
\* element removes itself
NotificationTimeout(card) ==
    /\ dom[CardResult(card)].notif.type # "none"
    /\ dom' = [dom EXCEPT ![CardResult(card)].notif = NoNotification]
    /\ lastOp' = [op |-> "notificationTimeout", card |-> card]
    /\ UNCHANGED <<inputs, selects, recHidden, recRows, shown, pending, serverVars, authVars, swVars>>

CardNext(card) ==
    \/ InputEvent(card)
    \/ AutoCalculateTimer(card)
    \/ Calculate(card)
    \/ ResetCard(card)
    \/ ShowCalculator(card)
    \/ NotificationTimeout(card)

Next == \E card \in Cards : CardNext(card) \/ SelectEvent(card)

Spec == Init /\ [][Next]_vars

\* The calculators share no element, so each card is also given a
\* specification of its own, in which only that card is used.

\* the bicarbonate card alone
NextBicarb == CardNext("bicarb-card")
SpecBicarb == Init /\ [][NextBicarb]_vars

\* the potassium card alone
NextPotassium == CardNext("potassium-card")
SpecPotassium == Init /\ [][NextPotassium]_vars

\* All five cards, one at a time: the user works on the visible card and
\* opens another card only once every card has been reset and no timer is
\* outstanding.
Pristine ==
    /\ inputs = [id \in InputIds |-> EmptyText]
    /\ selects = [id \in SelectIds |-> Options(id)[1]]
    /\ dom = [id \in ResultIds |-> BlankResult]
    /\ pending = [c \in Cards |-> 0]

NextFocus ==
    \E card \in Cards :
        \/ shown = card /\ (CardNext(card) \/ SelectEvent(card))
        \/ shown # card /\ Pristine /\ ShowCalculator(card)

SpecFocus == Init /\ [][NextFocus]_vars

\* All five cards side by side: the user types one plausible value into each
\* field, and opens another card only after the visible card has been
\* calculated with every field filled in, so that finished results stay
\* on the page while the next calculator runs.
FrameTexts(id) ==
    CASE id = "bicarb-weight" -> {Dec(70000)}
      [] id = "bicarb-be" -> {Dec(8000)}
      [] id = "k-weight" -> {Dec(70000)}
      [] id = "k-level" -> {Dec(2500)}
      [] id = "kcoef-mg" -> {Dec(200000)}
      [] id = "kcoef-vol" -> {Dec(50000)}
      [] id = "solu-weight" -> {Dec(70000)}
      [] id = "crcl-age" -> {Dec(60000)}
      [] id = "crcl-weight" -> {Dec(70000)}
      [] id = "crcl-creatinine" -> {Dec(1200)}

Settled(card) ==
    /\ lastOp = [op |-> "calc", card |-> card]
    /\ pending[card] = 0
    /\ \A id \in CardInputs(card) : inputs[id] # EmptyText
    /\ ~dom[CardResult(card)].dash

NextFrame ==
    \E card \in Cards :
        \/ /\ shown = card
           /\ \/ InputEventFrom(card, [id \in InputIds |-> FrameTexts(id)])
              \/ SelectEvent(card)
              \/ AutoCalculateTimer(card)
              \/ Calculate(card)
              \/ ResetCard(card)
        \/ shown # card /\ Settled(shown) /\ ShowCalculator(card)
        \/ NotificationTimeout(card)

SpecFrame == Init /\ [][NextFrame]_vars

\* the drug concentration card alone
NextKcoef == CardNext("kcoef-card")
SpecKcoef == Init /\ [][NextKcoef]_vars

\* the steroid loading dose card alone
NextSolu == CardNext("solu-card")
SpecSolu == Init /\ [][NextSolu]_vars

\* the creatinine clearance card alone (no notification is ever attached to
\* its result element)
NextCrCl ==
    \/ InputEvent("crcl-card")
    \/ SelectEvent("crcl-card")
    \/ AutoCalculateTimer("crcl-card")
    \/ Calculate("crcl-card")
    \/ ResetCard("crcl-card")
    \/ ShowCalculator("crcl-card")
SpecCrCl == Init /\ [][NextCrCl]_vars

-----------------------------------------------------------------------------
(* The server as a state machine: each handler is a chain of steps, one per
   callback; the database runs one statement at a time *)

\* the hash stored for the password of a request
Busy(r, kind, phase) == reqs[r].kind = kind /\ reqs[r].phase = phase

Finish(r, response) ==
    /\ reqs' = [reqs EXCEPT ![r] = Idle]
    /\ sent' = response

Advance(r, req) ==
    /\ reqs' = [reqs EXCEPT ![r] = req]
    /\ UNCHANGED sent

\* POST /api/register: validation, then the SELECT is queued
PostRegister(r) ==
    /\ reqs[r] = Idle
    /\ \E name \in NameTexts, email \in EmailTexts, password \in PasswordTexts :
          LET req == [Idle EXCEPT !.kind = "register", !.name = name,
                                  !.email = email, !.password = password, !.at = now]
          IN  IF ~registerValid(name, email, password)
                  THEN Finish(r, Response(req, 400, "invalid-field"))
                  ELSE Advance(r, [req EXCEPT !.phase = "select"])
    /\ UNCHANGED <<users, reset_tokens, now, issued, successes, pageVars, authVars, swVars>>

\* callback of SELECT id FROM users WHERE email = ?
RegisterSelect(r) ==
    /\ Busy(r, "register", "select")
    /\ IF userByEmail(users, toLowerCase(reqs[r].email)) # NoUser
           THEN Finish(r, Response(reqs[r], 400, "email-in-use"))
           ELSE Advance(r, [reqs[r] EXCEPT !.phase = "insert"])
    /\ UNCHANGED <<users, reset_tokens, now, issued, successes, pageVars, authVars, swVars>>

\* INSERT INTO users and its callback; email is UNIQUE
RegisterInsert(r) ==
    /\ Busy(r, "register", "insert")
    /\ LET email == toLowerCase(reqs[r].email)
           lastID == Len(users) + 1
           row == [id |-> lastID, name |-> trim(reqs[r].name), email |-> email,
                   password_hash |-> hashSync(reqs[r].password)]
           token == jwtSign(lastID, email, JWT_SECRET, now)
       IN  IF userByEmail(users, email) # NoUser
               THEN /\ Finish(r, Response(reqs[r], 500, "server-error"))
                    /\ UNCHANGED <<users, issued>>
               ELSE /\ users' = Append(users, row)
                    /\ issued' = issued \cup {token}
                    /\ Finish(r, [Response(reqs[r], 201, "registered") EXCEPT
                                     !.jwt = token,
                                     !.user = [row EXCEPT !.password_hash = NoUser.password_hash]])
    /\ UNCHANGED <<reset_tokens, now, successes, pageVars, authVars, swVars>>

\* tokens not signed by the server
Forged ==
    {[id |-> i, email |-> "a@x.ge", exp |-> now + JwtLifetime, sig |-> "guess"] :
        i \in 1..2}

Headers == {NoHeader, BareScheme} \cup {Bearer(t) : t \in issued \cup Forged}

\* GET /api/profile: authenticateToken, then the SELECT is queued
GetProfile(r) ==
    /\ reqs[r] = Idle
    /\ \E h \in Headers :
          LET req == [Idle EXCEPT !.kind = "profile", !.header = h, !.at = now]
              token == tokenOfHeader(h)
          IN  IF token = NoJwt
                  THEN Finish(r, Response(req, 401, "token-required"))
              ELSE IF ~jwtVerify(token, JWT_SECRET, now)
                  THEN Finish(r, Response(req, 403, "token-invalid-or-expired"))
              ELSE Advance(r, [req EXCEPT !.phase = "select", !.user.id = token.id])
    /\ UNCHANGED <<users, reset_tokens, now, issued, successes, pageVars, authVars, swVars>>

\* callback of SELECT id, name, email FROM users WHERE id = ?
ProfileSelect(r) ==
    /\ Busy(r, "profile", "select")
    /\ LET user == userById(users, reqs[r].user.id)
       IN  IF user = NoUser
               THEN Finish(r, Response(reqs[r], 404, "user-not-found"))
               ELSE Finish(r, [Response(reqs[r], 200, "") EXCEPT
                                  !.user = [user EXCEPT !.password_hash = NoUser.password_hash]])
    /\ UNCHANGED <<users, reset_tokens, now, issued, successes, pageVars, authVars, swVars>>

\* POST /api/password-reset-request
PostResetRequest(r) ==
    /\ reqs[r] = Idle
    /\ \E email \in EmailTexts :
          LET req == [Idle EXCEPT !.kind = "reset-request", !.email = email, !.at = now]
          IN  IF email = "" \/ ~emailValid(email)
                  THEN Finish(r, Response(req, 400, "invalid-email"))
                  ELSE Advance(r, [req EXCEPT !.phase = "select"])
    /\ UNCHANGED <<users, reset_tokens, now, issued, successes, pageVars, authVars, swVars>>

\* the reset tokens in the table or about to be inserted
TokensInUse ==
    {reset_tokens[k].token : k \in 1..Len(reset_tokens)}
        \cup {reqs[r].row.token : r \in ReqIds}

\* callback of SELECT id FROM users WHERE email = ?: a random token, its
\* expiry one hour from now, the INSERT queued
ResetRequestSelect(r) ==
    /\ Busy(r, "reset-request", "select")
    /\ LET user == userByEmail(users, toLowerCase(reqs[r].email))
       IN  IF user = NoUser
               THEN Finish(r, Response(reqs[r], 200, "if-registered-we-send-instructions"))
               ELSE \E token \in 1..MaxTokens :
                       /\ token \notin TokensInUse
                       /\ \A other \in 1..MaxTokens : other \notin TokensInUse => token <= other
                       /\ Advance(r, [reqs[r] EXCEPT
                              !.phase = "insert",
                              !.row = [user_id |-> user.id, token |-> token,
                                       expires |-> toISOString(now + ResetLifetime),
                                       used |-> 0]])
    /\ UNCHANGED <<users, reset_tokens, now, issued, successes, pageVars, authVars, swVars>>

\* INSERT OR REPLACE INTO reset_tokens (no column of the row is unique, so a
\* row is added) and its callback
ResetRequestInsert(r) ==
    /\ Busy(r, "reset-request", "insert")
    /\ reset_tokens' = Append(reset_tokens, reqs[r].row)
    /\ Finish(r, Response(reqs[r], 200, "if-registered-you-receive-instructions-soon-see-console"))
    /\ UNCHANGED <<users, now, issued, successes, pageVars, authVars, swVars>>

\* the token texts a client may send: none, one that was never issued, or
\* one of the table
BogusToken == MaxTokens + 1
ResetTokenTexts ==
    {0, BogusToken} \cup {reset_tokens[k].token : k \in 1..Len(reset_tokens)}

\* POST /api/password-reset
PostReset(r) ==
    /\ reqs[r] = Idle
    /\ \E token \in ResetTokenTexts, newPassword \in NewPasswordTexts :
          LET req == [Idle EXCEPT !.kind = "reset", !.token = token,
                                  !.password = newPassword, !.at = now]
          IN  IF token = 0 \/ newPassword = "" \/ length(newPassword) < 8
                  THEN Finish(r, Response(req, 400, "invalid-data-or-short-password"))
                  ELSE Advance(r, [req EXCEPT !.phase = "select"])
    /\ UNCHANGED <<users, reset_tokens, now, issued, successes, pageVars, authVars, swVars>>

\* callback of the SELECT on reset_tokens: the two UPDATEs are queued and
\* the success response is sent without waiting for them
ResetSelect(r) ==
    /\ Busy(r, "reset", "select")
    /\ LET row == resetRow(reset_tokens, reqs[r].token, now)
       IN  IF row = NoRow
               THEN /\ Finish(r, Response(reqs[r], 400, "token-invalid-or-expired"))
                    /\ UNCHANGED successes
               ELSE /\ reqs' = [reqs EXCEPT ![r] = [reqs[r] EXCEPT !.phase = "update-users",
                                                                 !.row = row]]
                    /\ sent' = Response([reqs[r] EXCEPT !.row = row], 200, "password-changed")
                    /\ successes' = [successes EXCEPT ![row.token] = @ + 1]
    /\ UNCHANGED <<users, reset_tokens, now, issued, pageVars, authVars, swVars>>

\* UPDATE users SET password_hash = ? WHERE id = ?
ResetUpdateUsers(r) ==
    /\ Busy(r, "reset", "update-users")
    /\ users' = [k \in 1..Len(users) |->
                    IF users[k].id = reqs[r].row.user_id
                        THEN [users[k] EXCEPT !.password_hash = hashSync(reqs[r].password)]
                        ELSE users[k]]
    /\ reqs' = [reqs EXCEPT ![r].phase = "update-token"]
    /\ UNCHANGED <<reset_tokens, now, issued, sent, successes, pageVars, authVars, swVars>>

\* UPDATE reset_tokens SET used = 1 WHERE token = ?
ResetUpdateToken(r) ==
    /\ Busy(r, "reset", "update-token")
    /\ reset_tokens' = [k \in 1..Len(reset_tokens) |->
                           IF reset_tokens[k].token = reqs[r].token
                               THEN [reset_tokens[k] EXCEPT !.used = 1]
                               ELSE reset_tokens[k]]
    /\ reqs' = [reqs EXCEPT ![r] = Idle]
    /\ UNCHANGED <<users, now, issued, sent, successes, pageVars, authVars, swVars>>

\* time passes
TickHour ==
    /\ now < StartHour + MaxHours
    /\ now' = now + 1
    /\ UNCHANGED <<users, reset_tokens, reqs, issued, sent, successes, pageVars, authVars, swVars>>

TickDay ==
    /\ now + HoursPerDay <= StartHour + MaxDays * HoursPerDay
    /\ now' = now + HoursPerDay
    /\ UNCHANGED <<users, reset_tokens, reqs, issued, sent, successes, pageVars, authVars, swVars>>

\* registration and the profile, over a day
NextProfile ==
    \/ \E r \in ReqIds :
          \/ PostRegister(r) \/ RegisterSelect(r) \/ RegisterInsert(r)
          \/ GetProfile(r) \/ ProfileSelect(r)
    \/ TickDay

SpecProfile == Init /\ [][NextProfile]_vars

\* password reset over some hours, once a first user has registered
NextReset ==
    \/ \E r \in ReqIds :
          \/ users = << >> /\ PostRegister(r)
          \/ RegisterSelect(r) \/ RegisterInsert(r)
          \/ PostResetRequest(r) \/ ResetRequestSelect(r) \/ ResetRequestInsert(r)
          \/ PostReset(r) \/ ResetSelect(r) \/ ResetUpdateUsers(r) \/ ResetUpdateToken(r)
    \/ TickHour

SpecReset == Init /\ [][NextReset]_vars

-----------------------------------------------------------------------------
(* The AuthManager as a state machine *)

\* apiCall(endpoint): the token is read from storage and the request sent
apiCall(c, endpoint, origin, token) ==
    [calls EXCEPT ![c] = [endpoint |-> endpoint, origin |-> origin, token |-> token]]

\* DOMContentLoaded: new AuthManager(), init(); storage holds no token or
\* the token of an earlier visit
LoadPage ==
    /\ authLast.op = "unloaded"
    /\ \E token \in {0, StaleToken} :
          /\ localStorage' = token
          /\ calls' = IF token # 0
                          THEN apiCall(1, "/api/profile", "validate", token)
                          ELSE calls
    /\ authLast' = [op |-> "init", origin |-> "", token |-> 0]
    /\ UNCHANGED <<refreshTimeout, loggedIn, minted, pageVars, serverVars, swVars>>

\* handleLogin / handleRegister: the form is submitted
Submit(c, endpoint, origin) ==
    /\ authLast.op # "unloaded"
    /\ calls[c] = NoCall
    /\ calls' = apiCall(c, endpoint, origin, localStorage)
    /\ authLast' = [op |-> "submit", origin |-> origin, token |-> localStorage]
    /\ UNCHANGED <<localStorage, refreshTimeout, loggedIn, minted, pageVars, serverVars, swVars>>

SubmitLogin(c) == Submit(c, "/api/login", "login")
SubmitRegister(c) == Submit(c, "/api/register", "register")

\* the timer of scheduleTokenRefresh fires after 20 hours
RefreshTimer(c) ==
    /\ refreshTimeout = "pending"
    /\ calls[c] = NoCall
    /\ refreshTimeout' = "fired"
    /\ calls' = apiCall(c, "/api/profile", "refresh", localStorage)
    /\ authLast' = [op |-> "timer", origin |-> "refresh", token |-> localStorage]
    /\ UNCHANGED <<localStorage, loggedIn, minted, pageVars, serverVars, swVars>>

\* handleLogout, confirmed
Logout ==
    /\ authLast.op # "unloaded"
    /\ localStorage' = 0
    /\ loggedIn' = FALSE
    /\ refreshTimeout' = "none"
    /\ authLast' = [op |-> "logout", origin |-> "", token |-> 0]
    /\ UNCHANGED <<calls, minted, pageVars, serverVars, swVars>>

\* the response of a call arrives: the rest of apiCall, then the caller's
\* continuation.  clearAuth removes whatever token is in storage; setToken
\* and a successful validation end in updateUI(true), whose loadProfileInfo
\* sends a profile request with the token then in storage
Receive(c) ==
    /\ calls[c] # NoCall
    /\ \E outcome \in Outcomes(calls[c]) :
          LET call == calls[c]
              stores == outcome = "ok" /\ call.origin \in {"login", "register"}
              clears == \/ outcome = "rejected"
                        \/ outcome # "ok" /\ call.origin \in {"validate", "refresh"}
              shows == outcome = "ok" /\ call.origin \in {"login", "register", "validate"}
              token == IF stores THEN minted + 1
                       ELSE IF clears THEN 0
                       ELSE localStorage
          IN  /\ stores => minted < MaxMinted
              /\ minted' = IF stores THEN minted + 1 ELSE minted
              /\ localStorage' = token
              /\ loggedIn' = IF shows THEN TRUE ELSE IF clears THEN FALSE ELSE loggedIn
              /\ refreshTimeout' = IF shows THEN "pending"
                                   ELSE IF clears THEN "none"
                                   ELSE refreshTimeout
              /\ calls' = IF shows
                              THEN apiCall(c, "/api/profile", "loadProfileInfo", token)
                              ELSE [calls EXCEPT ![c] = NoCall]
              /\ authLast' = [op |-> outcome, origin |-> call.origin, token |-> call.token]
    /\ UNCHANGED <<pageVars, serverVars, swVars>>

NextAuth ==
    \/ LoadPage
    \/ Logout
    \/ \E c \in CallIds :
          SubmitLogin(c) \/ SubmitRegister(c) \/ RefreshTimer(c) \/ Receive(c)

SpecAuth == Init /\ [][NextAuth]_vars

-----------------------------------------------------------------------------
(* The service worker as a state machine *)

\* 'install': cache.addAll(urlsToCache) fetches every url and stores the
\* responses, all of them or none
Install ==
    /\ cache = {}
    /\ cache' = {Entry(url, 200) : url \in urlsToCache}
    /\ UNCHANGED <<fetches, swLast, pageVars, serverVars, authVars>>

\* 'fetch': an API call or a request that is not a GET goes to the network,
\* any other request to caches.match
FetchEvent(f) ==
    /\ fetches[f] = NoFetch
    /\ \E request \in Requests :
          fetches' = [fetches EXCEPT ![f] =
                         [request |-> request,
                          phase |-> IF bypasses(request) THEN "passthrough" ELSE "match",
                          status |-> 0]]
    /\ UNCHANGED <<cache, swLast, pageVars, serverVars, authVars>>

\* caches.match(event.request) resolves: the entry, or fetch(event.request)
CacheMatch(f) ==
    /\ fetches[f].phase = "match"
    /\ IF cached(cache, fetches[f].request.url)
           THEN /\ \E e \in cache :
                      /\ e.url = fetches[f].request.url
                      /\ swLast' = Answer(fetches[f].request, "cache", e.status)
                /\ fetches' = [fetches EXCEPT ![f] = NoFetch]
           ELSE /\ fetches' = [fetches EXCEPT ![f].phase = "network"]
                /\ UNCHANGED swLast
    /\ UNCHANGED <<cache, pageVars, serverVars, authVars>>

\* the network responds, and every response that went through caches.match
\* is cloned for cache.put, whatever its status
NetworkResponseStoringAny(f) ==
    /\ fetches[f].phase \in {"passthrough", "network"}
    /\ \E status \in Statuses :
          /\ swLast' = Answer(fetches[f].request, "network", status)
          /\ fetches' = IF fetches[f].phase = "network"
                            THEN [fetches EXCEPT ![f].phase = "put", ![f].status = status]
                            ELSE [fetches EXCEPT ![f] = NoFetch]
    /\ UNCHANGED <<cache, pageVars, serverVars, authVars>>

\* the network responds: the response is the answer, and a 200 to a
\* request that went through caches.match is cloned for cache.put
NetworkResponse(f) ==
    /\ fetches[f].phase \in {"passthrough", "network"}
    /\ \E status \in Statuses :
          /\ swLast' = Answer(fetches[f].request, "network", status)
          /\ fetches' = IF fetches[f].phase = "network" /\ status = 200
                            THEN [fetches EXCEPT ![f].phase = "put", ![f].status = status]
                            ELSE [fetches EXCEPT ![f] = NoFetch]
    /\ UNCHANGED <<cache, pageVars, serverVars, authVars>>

\* caches.open(CACHE_NAME).then(cache => cache.put(...)) completes
CachePut(f) ==
    /\ fetches[f].phase = "put"
    /\ cache' = {e \in cache : e.url # fetches[f].request.url}
                    \cup {Entry(fetches[f].request.url, fetches[f].status)}
    /\ fetches' = [fetches EXCEPT ![f] = NoFetch]
    /\ UNCHANGED <<swLast, pageVars, serverVars, authVars>>

\* fetch rejects: the page gets the error for a passed-through request; for
\* the others the catch answers a document request with the cached
\* '/index.html' (nothing when it is not cached) and any other request with
\* a 503 'Offline' response
NetworkFailure(f) ==
    /\ fetches[f].phase \in {"passthrough", "network"}
    /\ swLast' =
          IF fetches[f].phase = "passthrough"
              THEN Answer(fetches[f].request, "network-error", 0)
          ELSE IF fetches[f].request.destination = "document"
              THEN IF cached(cache, "/index.html")
                       THEN Answer(fetches[f].request, "cache-index", 200)
                       ELSE Answer(fetches[f].request, "network-error", 0)
          ELSE Answer(fetches[f].request, "offline", 503)
    /\ fetches' = [fetches EXCEPT ![f] = NoFetch]
    /\ UNCHANGED <<cache, pageVars, serverVars, authVars>>

NextSW ==
    \/ Install
    \/ \E f \in FetchIds :
          \/ FetchEvent(f) \/ CacheMatch(f) \/ NetworkResponse(f)
          \/ CachePut(f) \/ NetworkFailure(f)

SpecSW == Init /\ [][NextSW]_vars




-----------------------------------------------------------------------------
(* Properties *)

\* the card's calculator is the handler that ran last, so the input
\* elements still hold what it read
Ran(card) == lastOp = [op |-> "calc", card |-> card]

\* the text of a result element, without its notification
TextOf(el) == [dash |-> el.dash, h |-> el.h, unit |-> el.unit, cat |-> el.cat]

IsDec(t) == t.k = "dec"

ErrorCriticalLowK == [type |-> "error", msg |-> "criticalLowK", arg |-> 0]
WarningHighDose == [type |-> "warning", msg |-> "highDose", arg |-> 0]

\* C1: whenever calcPotassium has run with a finite weight and 0 < level <
\* 2.5, the potassium result shows an error annotation and no numeric
\* amount, whatever was calculated before.
C1_SafetyOverrideShowsNoAmount ==
    LET wt == inputs["k-weight"]
        lv == inputs["k-level"]
        el == dom["potassium-result"]
    IN  (Ran("potassium-card") /\ IsDec(wt) /\ IsDec(lv) /\ lv.m > 0 /\ lv.m < 2500)
            => (el.notif.type = "error" /\ el.dash)

\* C2 as stated: for every potassium level in [0, 2.5), 0 included, and
\* every weight, calcPotassium ends in the error annotation.
C2_SafetyOverrideFromZero ==
    LET lv == inputs["k-level"]
        el == dom["potassium-result"]
    IN  (Ran("potassium-card") /\ IsDec(lv) /\ lv.m >= 0 /\ lv.m < 2500)
            => el.notif.type = "error"

\* C2 amended: a call of calcPotassium with a finite weight and a level in
\* the open interval (0, 2.5) attaches the error annotation and writes
\* neither the invalid marker nor an amount (the result text stays as it
\* was); with level = 0, or a weight that is not finite, it writes the
\* invalid marker and no annotation.
C2_SafetyOverrideAboveZero ==
    [][LET wt == inputs'["k-weight"]
           lv == inputs'["k-level"]
           el == dom'["potassium-result"]
       IN  (lastOp' = [op |-> "calc", card |-> "potassium-card"]) =>
              /\ (IsDec(wt) /\ IsDec(lv) /\ lv.m > 0 /\ lv.m < 2500) =>
                    /\ el.notif = ErrorCriticalLowK
                    /\ TextOf(el) = TextOf(dom["potassium-result"])
              /\ (~IsDec(wt) \/ (IsDec(lv) /\ lv.m = 0)) => el = BlankResult]_vars

\* C2 witness: the safety override has just been raised for level 2.499
C2_Witness ==
    /\ Ran("potassium-card")
    /\ inputs["k-weight"] = Dec(70000)
    /\ inputs["k-level"] = Dec(2499)
    /\ dom["potassium-result"].notif = ErrorCriticalLowK

\* C3: calcBicarb uses the absolute value of the base excess: weight 70 and
\* base excess -8 give the dose 336 ml with the high-dose warning.
C3_AbsoluteBaseExcess ==
    (/\ Ran("bicarb-card")
     /\ inputs["bicarb-weight"] = Dec(70000)
     /\ inputs["bicarb-be"] = Dec(-8000))
        => dom["bicarb-result"] =
              [dash |-> FALSE, h |-> 33600, unit |-> "ml 8.4% NaHCO3", cat |-> "",
               notif |-> WarningHighDose]

-----------------------------------------------------------------------------
(* Creatinine clearance: what the inputs of the CrCl card should give *)

CrClInputsValid ==
    /\ IsDec(inputs["crcl-age"]) /\ inputs["crcl-age"].m >= 0
    /\ IsDec(inputs["crcl-weight"]) /\ inputs["crcl-weight"].m > 0
    /\ IsDec(inputs["crcl-creatinine"]) /\ inputs["crcl-creatinine"].m > 0

\* Cockcroft-Gault on the current inputs: (140 - age) / 72 * weight /
\* creatinine * genderFactor, creatinine in umol/L counting 1/88.4 mg/dL
ExpectedRaw ==
    LET am == inputs["crcl-age"].m
        wm == inputs["crcl-weight"].m
        cm == inputs["crcl-creatinine"].m
        gf == IF selects["crcl-gender"] = "female" THEN Fin(17, 20) ELSE Int2Num(1)
        uf == IF selects["crcl-unit"] = "umol/L" THEN Fin(442, 5) ELSE Int2Num(1)
    IN  Mul(Mul(Mul(Fin(140000 - am, 72000), Fin(wm, cm)), gf), uf)

ExpectedClearance == IF ExpectedRaw.n < 0 THEN Int2Num(0) ELSE ExpectedRaw

\* the category of a clearance v >= 0 by the thresholds 50, 30 and 10
ExpectedCategory(v) ==
    IF v.n >= 50 * v.d THEN "normal"
    ELSE IF v.n >= 30 * v.d THEN "mild"
    ELSE IF v.n >= 10 * v.d THEN "moderate"
    ELSE "severe"

\* h hundredths is v >= 0 rounded to the nearest number with 0 fraction
\* digits (v >= 1000), 1 (v >= 100) or 2 (otherwise)
Shows(h, v) ==
    LET step == IF v.n >= 1000 * v.d THEN 100 ELSE IF v.n >= 100 * v.d THEN 10 ELSE 1
        whole == (h \div 100) - (v.n \div v.d)
    IN  /\ h % step = 0
        /\ whole \in {-1, 0, 1}
        /\ 2 * Abs(whole * 100 * v.d + (h % 100) * v.d - 100 * (v.n % v.d))
              <= step * v.d

\* the inputs of the CrCl card are age 68, male, creatinine 1 mg/dL, for
\* which the clearance equals the weight, and the weight is wm thousandths
WeightIsClearance(wm) ==
    /\ inputs["crcl-age"] = Dec(68000)
    /\ inputs["crcl-creatinine"] = Dec(1000)
    /\ inputs["crcl-weight"] = Dec(wm)
    /\ selects["crcl-gender"] = "male"
    /\ selects["crcl-unit"] = "mg/dL"

\* C5: calcCrCl never shows a negative clearance; with age > 140, where the
\* raw value is negative, it shows 0 and the category and the table rows
\* are those of severe impairment.
C5_ClearanceNeverNegative ==
    LET el == dom["crcl-result"]
    IN  (Ran("crcl-card") /\ CrClInputsValid) =>
            /\ ~el.dash /\ el.h >= 0
            /\ inputs["crcl-age"].m > 140000 =>
                  /\ el.h = 0
                  /\ el.cat = "severe"
                  /\ \A k \in 1..Len(recRows) : recRows[k].crcl = "<10"

\* C5 witness: a clearance has just been calculated for age 150
C5_Witness ==
    /\ Ran("crcl-card") /\ CrClInputsValid
    /\ inputs["crcl-age"] = Dec(150000)
    /\ dom["crcl-result"].h = 0
    /\ ~recHidden

\* C6: the category shown is that of the clamped clearance by the
\* thresholds >= 50 normal, >= 30 mild, >= 10 moderate, else severe; 50 is
\* normal, 49.999 mild, 30 mild, 29.999 moderate, 10 moderate, 9.999 severe.
C6_CategoryBoundaries ==
    LET cat == dom["crcl-result"].cat
    IN  (Ran("crcl-card") /\ CrClInputsValid) =>
            /\ cat = ExpectedCategory(ExpectedClearance)
            /\ WeightIsClearance(50000) => cat = "normal"
            /\ WeightIsClearance(49999) => cat = "mild"
            /\ WeightIsClearance(30000) => cat = "mild"
            /\ WeightIsClearance(29999) => cat = "moderate"
            /\ WeightIsClearance(10000) => cat = "moderate"
            /\ WeightIsClearance(9999) => cat = "severe"

\* C6 witness: a clearance of exactly 50 has just been categorised
C6_Witness ==
    /\ Ran("crcl-card")
    /\ WeightIsClearance(50000)
    /\ dom["crcl-result"].cat = "normal"

\* C7: with creatinine in mg/dL, calcCrCl shows ((140 - age) * weight *
\* genderFactor) / (72 * creatinine), clamped at 0, genderFactor 0.85 for
\* female and 1 otherwise; age 60, weight 70, male, creatinine 1.2 give
\* 64.81 (5600/86.4) and the category normal.
C7_CockcroftGault ==
    LET el == dom["crcl-result"]
    IN  (Ran("crcl-card") /\ CrClInputsValid /\ selects["crcl-unit"] = "mg/dL") =>
            /\ ~el.dash /\ el.unit = "ml/min"
            /\ Shows(el.h, ExpectedClearance)
            /\ (/\ inputs["crcl-age"] = Dec(60000)
                /\ inputs["crcl-weight"] = Dec(70000)
                /\ inputs["crcl-creatinine"] = Dec(1200)
                /\ selects["crcl-gender"] = "male") =>
                   (el.h = 6481 /\ el.cat = "normal")

\* C7 witness: the example has just been calculated
C7_Witness ==
    /\ Ran("crcl-card")
    /\ inputs["crcl-age"] = Dec(60000)
    /\ inputs["crcl-weight"] = Dec(70000)
    /\ inputs["crcl-creatinine"] = Dec(1200)
    /\ selects["crcl-gender"] = "male"
    /\ selects["crcl-unit"] = "mg/dL"
    /\ dom["crcl-result"].h = 6481

\* C8: creatinine 88.4 in umol/L gives the clearance, the category and the
\* recommendations that 1.0 in mg/dL gives for the same age, weight and
\* gender; a value c in umol/L counts as c / 88.4 mg/dL.
C8_UnitConversion ==
    LET el == dom["crcl-result"]
        ref == calcCrCl([inputs EXCEPT !["crcl-creatinine"] = Dec(1000)],
                        [selects EXCEPT !["crcl-unit"] = "mg/dL"], page)
    IN  (Ran("crcl-card") /\ CrClInputsValid /\ selects["crcl-unit"] = "umol/L") =>
            /\ Shows(el.h, ExpectedClearance)
            /\ el.cat = ExpectedCategory(ExpectedClearance)
            /\ inputs["crcl-creatinine"] = Dec(88400) =>
                  /\ el = ref.dom["crcl-result"]
                  /\ recRows = ref.rows
                  /\ recHidden = ref.hidden

\* C8 witness: a clearance has just been calculated from 88.4 umol/L
C8_Witness ==
    /\ Ran("crcl-card") /\ CrClInputsValid
    /\ selects["crcl-unit"] = "umol/L"
    /\ inputs["crcl-creatinine"] = Dec(88400)
    /\ inputs["crcl-age"] = Dec(60000)
    /\ inputs["crcl-weight"] = Dec(70000)
    /\ ~dom["crcl-result"].dash

\* C9: calcCrCl shows the invalid result and hides the recommendations
\* exactly when age, weight or creatinine is not finite, age < 0, weight <=
\* 0 or creatinine <= 0 (the value as entered); age 0 is accepted.
C9_CrClValidity ==
    LET el == dom["crcl-result"]
    IN  Ran("crcl-card") =>
            IF CrClInputsValid THEN ~el.dash /\ ~recHidden
            ELSE el = BlankResult /\ recHidden

\* C9 witness: a clearance has just been calculated for age 0
C9_Witness ==
    /\ Ran("crcl-card") /\ CrClInputsValid
    /\ inputs["crcl-age"] = Dec(0)
    /\ ~dom["crcl-result"].dash
    /\ ~recHidden

\* C10: after a successful calcCrCl the table holds exactly five rows, for
\* amoxicillin, ciprofloxacin, gentamicin, meropenem and vancomycin in this
\* order, each the table's row for the category of the clamped clearance,
\* whatever was calculated before.
C10_RecommendationRows ==
    LET cat == ExpectedCategory(ExpectedClearance)
        range == CASE cat = "normal" -> ">50" [] cat = "mild" -> "30-50"
                   [] cat = "moderate" -> "10-30" [] OTHER -> "<10"
    IN  (Ran("crcl-card") /\ CrClInputsValid) =>
            /\ Len(recRows) = 5
            /\ [k \in 1..5 |-> recRows[k].name] =
                  <<"amoxicillin", "ciprofloxacin", "gentamicin", "meropenem",
                    "vancomycin">>
            /\ \A k \in 1..5 :
                  /\ recRows[k] = recs[recRows[k].name][cat]
                  /\ recRows[k].crcl = range

\* C10 witness: the rows for moderate impairment have just been written
C10_Witness ==
    /\ Ran("crcl-card") /\ CrClInputsValid
    /\ dom["crcl-result"].cat = "moderate"
    /\ Len(recRows) = 5
    /\ recRows[5] = Row("vancomycin", "10-30", "15 mg/kg", "q48h")

-----------------------------------------------------------------------------
(* Rounding, potassium, concentration, loading dose, monotonicity *)

\* C11: the category comes from the unrounded clamped clearance, not from
\* the number on display: 49.996, displayed as 50, is mild; 29.996,
\* displayed as 30, is moderate; 9.996, displayed as 10, is severe.
C11_CategoryFromUnroundedValue ==
    LET el == dom["crcl-result"]
    IN  (Ran("crcl-card") /\ CrClInputsValid) =>
            /\ el.cat = ExpectedCategory(ExpectedClearance)
            /\ WeightIsClearance(49996) => (el.h = 5000 /\ el.cat = "mild")
            /\ WeightIsClearance(29996) => (el.h = 3000 /\ el.cat = "moderate")
            /\ WeightIsClearance(9996) => (el.h = 1000 /\ el.cat = "severe")
            /\ \A k \in 1..Len(recRows) : recRows[k] = recs[DrugOrder[k]][el.cat]

\* C11 witness: 49.996 has just been displayed as 50 and categorised mild
C11_Witness ==
    /\ Ran("crcl-card")
    /\ WeightIsClearance(49996)
    /\ dom["crcl-result"].h = 5000
    /\ dom["crcl-result"].cat = "mild"

\* C12: with a finite weight and level >= 2.5 calcPotassium shows
\* (weight * 1.74) / level, with the warning iff that amount exceeds 40 (an
\* amount above 40 is still shown as a number); with a weight or level that
\* is not finite, or level <= 0, it shows the invalid result.
C12_PotassiumContract ==
    LET wt == inputs["k-weight"]
        lv == inputs["k-level"]
        el == dom["potassium-result"]
        amount == Fin(wt.m * 174, lv.m * 100)
        tenths == (IF wt.m < 0 THEN -1 ELSE 1) * ScaledRound(amount, 1)
    IN  Ran("potassium-card") =>
            IF ~IsDec(wt) \/ ~IsDec(lv) \/ lv.m <= 0
                THEN el = BlankResult
            ELSE lv.m >= 2500 =>
                 /\ TextOf(el) = [dash |-> FALSE, h |-> formatNumber(amount).h,
                                  unit |-> "ml 15% KCl", cat |-> ""]
                 /\ el.notif = IF wt.m * 174 > 4000 * lv.m
                                   THEN [type |-> "warning", msg |-> "highDoseRate",
                                         arg |-> tenths]
                               ELSE NoNotification

\* C12 witness: weight 70 and level 2.5 have just given 48.72 ml, shown
\* with the warning
C12_Witness ==
    /\ Ran("potassium-card")
    /\ inputs["k-weight"] = Dec(70000)
    /\ inputs["k-level"] = Dec(2500)
    /\ dom["potassium-result"].h = 4872
    /\ dom["potassium-result"].notif =
          [type |-> "warning", msg |-> "highDoseRate", arg |-> 487]

\* C13: calcKcoef shows the invalid result exactly when mass or volume is
\* not finite or volume <= 0; otherwise (mass * 1000) / volume, with the
\* 'high' note iff it exceeds 1000, the 'low' note iff it is below 100 and
\* no note from 100 to 1000, both ends included.
C13_KcoefContract ==
    LET mg == inputs["kcoef-mg"]
        vol == inputs["kcoef-vol"]
        el == dom["kcoef-result"]
    IN  Ran("kcoef-card") =>
            IF ~IsDec(mg) \/ ~IsDec(vol) \/ vol.m <= 0
                THEN el = BlankResult
            ELSE /\ TextOf(el) =
                        [dash |-> FALSE, h |-> formatNumber(Fin(mg.m * 1000, vol.m)).h,
                         unit |-> "mcg/ml", cat |-> ""]
                 /\ el.notif =
                        IF mg.m > vol.m
                            THEN [type |-> "info", msg |-> "highConcentration", arg |-> 0]
                        ELSE IF mg.m * 10 < vol.m
                            THEN [type |-> "info", msg |-> "lowConcentration", arg |-> 0]
                        ELSE NoNotification

\* C13 witness: 50 mg in 50 ml have just given 1000 mcg/ml, without a note
C13_Witness ==
    /\ Ran("kcoef-card")
    /\ inputs["kcoef-mg"] = Dec(50000)
    /\ inputs["kcoef-vol"] = Dec(50000)
    /\ dom["kcoef-result"].h = 100000
    /\ dom["kcoef-result"].notif = NoNotification

\* C14: for a finite weight calcSolu shows 30 * weight and always the note
\* with the volume dose / 125 (to one fraction digit); for a weight that is
\* not finite it shows the invalid result and no note.
C14_SoluContract ==
    LET wt == inputs["solu-weight"]
        el == dom["solu-result"]
    IN  Ran("solu-card") =>
            IF ~IsDec(wt) THEN el = BlankResult
            ELSE /\ TextOf(el) = [dash |-> FALSE, h |-> formatNumber(Fin(3 * wt.m, 100)).h,
                                  unit |-> "mg IV", cat |-> ""]
                 /\ el.notif.type = "info" /\ el.notif.msg = "volume"
                 /\ 2 * Abs(el.notif.arg * 10000 - 24 * wt.m) <= 10000

\* C14 witness: weight 12.5 has just given 375 mg and the volume 3.0 ml
C14_Witness ==
    /\ Ran("solu-card")
    /\ inputs["solu-weight"] = Dec(12500)
    /\ dom["solu-result"].h = 37500
    /\ dom["solu-result"].notif = [type |-> "info", msg |-> "volume", arg |-> 30]

\* the positive decimals among the texts of an input element
PositiveTexts(id) == {t \in Texts(id) : IsDec(t) /\ t.m > 0}

\* C15: for weight > 0 and base excess > 0 the bicarbonate dose grows
\* strictly with the weight at a fixed base excess and strictly with the
\* base excess at a fixed weight (the displayed, rounded dose never falls).
C15_BicarbMonotone ==
    LET wt == inputs["bicarb-weight"]
        be == inputs["bicarb-be"]
        el == dom["bicarb-result"]
        dose(w, b) == bicarbDose(parseFloat(w), parseFloat(b))
    IN  (Ran("bicarb-card") /\ wt \in PositiveTexts("bicarb-weight")
                            /\ be \in PositiveTexts("bicarb-be")) =>
            /\ \A w2 \in PositiveTexts("bicarb-weight") :
                  w2.m > wt.m =>
                     /\ Gt(dose(w2, be), dose(wt, be))
                     /\ calcBicarb([inputs EXCEPT !["bicarb-weight"] = w2],
                                   dom)["bicarb-result"].h >= el.h
            /\ \A b2 \in PositiveTexts("bicarb-be") :
                  b2.m > be.m =>
                     /\ Gt(dose(wt, b2), dose(wt, be))
                     /\ calcBicarb([inputs EXCEPT !["bicarb-be"] = b2],
                                   dom)["bicarb-result"].h >= el.h

\* C15 witness: the smallest positive weight and base excess of the model
\* have just been calculated
C15_Witness ==
    /\ Ran("bicarb-card")
    /\ inputs["bicarb-weight"] = Dec(20000)
    /\ inputs["bicarb-be"] = Dec(2380)
    /\ ~dom["bicarb-result"].dash

-----------------------------------------------------------------------------
(* Validity, annotations and history *)

\* some input of the card's calculator is not finite or violates its
\* domain constraint
InputsInvalid(card) ==
    CASE card = "bicarb-card" ->
            \/ ~IsDec(inputs["bicarb-weight"]) \/ ~IsDec(inputs["bicarb-be"])
            \/ inputs["bicarb-be"].m <= 0
      [] card = "potassium-card" ->
            \/ ~IsDec(inputs["k-weight"]) \/ ~IsDec(inputs["k-level"])
            \/ inputs["k-level"].m <= 0
      [] card = "kcoef-card" ->
            \/ ~IsDec(inputs["kcoef-mg"]) \/ ~IsDec(inputs["kcoef-vol"])
            \/ inputs["kcoef-vol"].m <= 0
      [] card = "solu-card" -> ~IsDec(inputs["solu-weight"])
      [] card = "crcl-card" -> ~CrClInputsValid

\* the inputs of the potassium card are valid and the level is below 2.5
SafetyOverrideInputs ==
    ~InputsInvalid("potassium-card") /\ inputs["k-level"].m < 2500

\* C16 as stated: after each calculator the result is the invalid marker
\* iff some input is not finite or violates the domain constraint, and
\* every other input gives a number (no non-numeric outcome).
C16_InvalidIffBadInput ==
    \A card \in Cards :
        Ran(card) =>
            LET el == dom[CardResult(card)]
            IN  IF InputsInvalid(card) THEN el.dash
                ELSE ~el.dash /\ el.notif.type # "error"

\* C16 amended: a call of a calculator writes the invalid marker (and no
\* annotation) iff some input is not finite or violates the domain
\* constraint, and writes a number for every other input, except that
\* calcPotassium with a finite weight and 0 < level < 2.5 writes neither:
\* it attaches the error annotation and leaves the result text as it was.
C16_InvalidIffBadInputOrOverride ==
    [][\A card \in Cards :
          (lastOp' = [op |-> "calc", card |-> card]) =>
              LET el == dom'[CardResult(card)]
              IN  IF InputsInvalid(card)' THEN el = BlankResult
                  ELSE IF card = "potassium-card" /\ SafetyOverrideInputs'
                      THEN /\ el.notif = ErrorCriticalLowK
                           /\ TextOf(el) = TextOf(dom[CardResult(card)])
                  ELSE ~el.dash /\ el.unit # "" /\ el.notif.type # "error"]_vars

\* C16 witness: calcKcoef has just rejected a negative volume
C16_Witness ==
    /\ Ran("kcoef-card")
    /\ inputs["kcoef-mg"] = Dec(50000)
    /\ inputs["kcoef-vol"] = Dec(-50000)
    /\ dom["kcoef-result"] = BlankResult

\* C17 as stated: in every reachable state a result element that shows the
\* invalid marker carries no annotation.
C17_NoAnnotationOnInvalid ==
    \A id \in ResultIds : dom[id].dash => dom[id].notif = NoNotification

\* C17 amended: a result element that shows the invalid marker carries no
\* warning or info annotation, and an error annotation only on the
\* potassium result (the safety override raised over the marker); after a
\* calculation with invalid inputs the element carries no annotation at
\* all, whatever an earlier calculation had attached.
C17_NoAnnotationOnInvalidButOverride ==
    /\ \A id \in ResultIds :
          dom[id].dash =>
             \/ dom[id].notif = NoNotification
             \/ id = "potassium-result" /\ dom[id].notif = ErrorCriticalLowK
    /\ \A card \in Cards :
          (Ran(card) /\ InputsInvalid(card)) => dom[CardResult(card)] = BlankResult

\* C17 witness: calcBicarb has just rejected a base excess of 0 entered
\* beside weight 70
C17_Witness ==
    /\ Ran("bicarb-card")
    /\ inputs["bicarb-weight"] = Dec(70000)
    /\ inputs["bicarb-be"] = Dec(0)
    /\ dom["bicarb-result"] = BlankResult

-----------------------------------------------------------------------------
(* Independence of the calculators *)

BlankPage == Page([id \in ResultIds |-> BlankResult], TRUE, << >>)

\* C18 as stated: what a card displays after its calculator ran is what the
\* calculator displays for the same inputs on a page where nothing was
\* calculated before.
C18_OutcomeFromInputsOnly ==
    \A card \in Cards :
        Ran(card) =>
            LET fresh == autoCalculate(card, inputs, selects, BlankPage)
            IN  /\ dom[CardResult(card)] = fresh.dom[CardResult(card)]
                /\ (card = "crcl-card") =>
                      /\ recHidden = fresh.hidden
                      /\ ~recHidden => recRows = fresh.rows

\* C19: a step that runs one calculator leaves the result elements of the
\* other four as they were, and a step that changes the visibility or the
\* content of the recommendations panel is calcCrCl or the reset of the
\* creatinine clearance card.
C19_Frame ==
    [][/\ \A card \in Cards :
            (lastOp' = [op |-> "calc", card |-> card]) =>
                /\ \A id \in ResultIds \ {CardResult(card)} : dom'[id] = dom[id]
                /\ (card # "crcl-card") =>
                      (recHidden' = recHidden /\ recRows' = recRows)
       /\ (recHidden' # recHidden \/ recRows' # recRows) =>
            /\ lastOp'.card = "crcl-card"
            /\ lastOp'.op \in {"calc", "reset"}]_vars

\* C19 witness: calcPotassium has just run while the bicarbonate and the
\* clearance results and the recommendations panel are on display
C19_Witness ==
    /\ Ran("potassium-card")
    /\ ~dom["potassium-result"].dash
    /\ ~dom["bicarb-result"].dash
    /\ ~dom["crcl-result"].dash
    /\ ~recHidden
    /\ recRows # << >>

\* C20 as stated: within a burst of input events on a card (no timer fires
\* between two events) a later event replaces the timer of the event before
\* it, so that the burst leaves one run of autoCalculate outstanding.
C20_BurstSchedulesOneRun ==
    [][\A card \in Cards :
          (/\ lastOp = [op |-> "input", card |-> card]
           /\ lastOp' = [op |-> "input", card |-> card]
           /\ <<inputs, selects>>' # <<inputs, selects>>) =>
              pending'[card] = pending[card]]_vars

-----------------------------------------------------------------------------
(* Formatting, outcomes, the recommendations panel *)

\* C21: a clearance of 1000 or more is displayed with no fraction digit,
\* one from 100 up to 1000 with at most one, any other with at most two
\* (the display is counted in hundredths); NaN and the infinities are
\* formatted as the dash, and an invalid calculation displays the dash.
C21_FractionDigits ==
    /\ \A x \in {NaN, Infinity, NegInfinity} : formatNumber(x).dash
    /\ Ran("crcl-card") =>
          LET v == ExpectedClearance
              el == dom["crcl-result"]
          IN  IF CrClInputsValid
                  THEN /\ ~el.dash
                       /\ (v.n >= 1000 * v.d) => el.h % 100 = 0
                       /\ (v.n >= 100 * v.d /\ v.n < 1000 * v.d) => el.h % 10 = 0
                  ELSE el.dash

\* C21 witness: a clearance above 1000 that is not a whole number has just
\* been displayed
C21_Witness ==
    /\ Ran("crcl-card") /\ CrClInputsValid
    /\ ExpectedClearance.n >= 1000 * ExpectedClearance.d
    /\ ExpectedClearance.d # 1
    /\ ~dom["crcl-result"].dash

\* the shapes of a result element after a calculator ran, old being the
\* element before the call
NumericOutcome(el) ==
    ~el.dash /\ el.unit # "" /\ el.notif.type \in {"none", "warning", "info"}

InvalidOutcome(el) == el = BlankResult

OverrideOutcome(card, el, old) ==
    /\ card = "potassium-card"
    /\ el.notif = ErrorCriticalLowK
    /\ TextOf(el) = TextOf(old)

C28_PanelFollowsLastCalculation ==
    [][IF lastOp' = [op |-> "calc", card |-> "crcl-card"]
           THEN /\ inputs' = inputs /\ selects' = selects
                /\ IF CrClInputsValid
                       THEN /\ ~recHidden'
                            /\ recRows' = getAntibioticRecommendations(
                                             ExpectedCategory(ExpectedClearance))
                       ELSE recHidden'
       ELSE IF lastOp' = [op |-> "reset", card |-> "crcl-card"]
           THEN recHidden'
       ELSE recHidden' = recHidden /\ recRows' = recRows]_vars

\* C28 witness: the panel is hidden by a reset while it holds the rows of an
\* earlier calculation
C28_Witness ==
    /\ lastOp = [op |-> "reset", card |-> "crcl-card"]
    /\ recHidden
    /\ recRows # << >>

-----------------------------------------------------------------------------
(* The server: profile and password reset *)

\* the token a profile request presented and whether, when the request
\* arrived, it was signed with the server's secret and not yet expired
Presented == tokenOfHeader(sent.req.header)
PresentedGood == Presented.sig = JWT_SECRET /\ sent.req.at < Presented.exp

\* C23: a profile response with a user answers a request whose token was
\* signed with the server's secret and unexpired, and the user is the row
\* whose id is in the token; without a token the response is 401, with a
\* token that does not verify 403, both sent before any database lookup.
C23_ProfileOnlyForVerifiedToken ==
    sent.kind = "profile" =>
        /\ (sent.status = 200 \/ sent.user # NoUser) =>
              /\ Presented # NoJwt /\ PresentedGood
              /\ sent.user.id = Presented.id
              /\ Presented.id \in 1..Len(users)
              /\ sent.user.name = users[Presented.id].name
              /\ sent.user.email = users[Presented.id].email
        /\ (Presented = NoJwt) => (sent.status = 401 /\ ~sent.lookedUp)
        /\ (Presented # NoJwt /\ ~PresentedGood) => (sent.status = 403 /\ ~sent.lookedUp)
        /\ sent.lookedUp => PresentedGood

\* C23 witness: a token the server signed has expired and was refused
C23_Witness ==
    /\ sent.kind = "profile"
    /\ sent.status = 403
    /\ Presented.sig = JWT_SECRET
    /\ sent.req.at >= Presented.exp
    /\ ~sent.lookedUp

\* the hour at which a row of reset_tokens was created
CreatedAt(row) ==
    row.expires.date * HoursPerDay + row.expires.time - ResetLifetime

\* C24 as stated: a reset attempt made more than one hour after its token
\* was created is answered 400.
C24_RejectedAfterOneHour ==
    \A k \in 1..Len(reset_tokens) :
        (/\ sent.kind = "reset"
         /\ sent.req.token = reset_tokens[k].token
         /\ sent.req.at > CreatedAt(reset_tokens[k]) + ResetLifetime) =>
            sent.status = 400

\* C25 as stated: at most one request with a given reset token gets the
\* success response.
C25_TokenUsedAtMostOnce ==
    \A t \in 1..MaxTokens : successes[t] <= 1

\* C26 as stated: two responses to well-formed password reset requests,
\* one after the other, have the same status and the same body, whichever
\* of the two emails is registered.
C26_SameResponseForAnyEmail ==
    [][(/\ sent.kind = "reset-request" /\ emailValid(sent.req.email)
        /\ sent'.kind = "reset-request" /\ emailValid(sent'.req.email)) =>
            (sent'.status = sent.status /\ sent'.msg = sent.msg)]_vars

-----------------------------------------------------------------------------
(* The client's token *)

\* C27 as stated: a token in storage is removed only by logout or by the
\* rejection of a call that was sent with that same token.
C27_TokenOutlivesStaleRejection ==
    [][(localStorage # 0 /\ localStorage' = 0) =>
          \/ authLast'.op = "logout"
          \/ authLast'.op = "rejected" /\ authLast'.token = localStorage]_vars

\* the requests the fetch handler hands to the network untouched
ApiOrNotGet(request) == includesApi(request.url) \/ request.method # "GET"

\* the step answers the request of slot f
Answered(f) ==
    /\ fetches[f].phase \in {"match", "passthrough", "network"}
    /\ fetches'[f].phase \in {"", "put"}

\* the cache changes only by the install or by a cache.put of a 200
\* response to a GET outside '/api/'
OnlyGoodPuts ==
    cache' # cache =>
        \/ cache = {} /\ cache' = {Entry(url, 200) : url \in urlsToCache}
        \/ \E f \in FetchIds :
              /\ fetches[f].phase = "put"
              /\ ~ApiOrNotGet(fetches[f].request)
              /\ fetches[f].status = 200
              /\ cache' \ cache = {Entry(fetches[f].request.url, 200)}

\* a request with '/api/' in its URL or a method other than GET is answered
\* by the network alone
BypassedFromNetwork(f) ==
    ApiOrNotGet(fetches[f].request) =>
        /\ fetches[f].phase = "passthrough"
        /\ fetches'[f] = NoFetch
        /\ swLast'.source \in {"network", "network-error"}

====
